---- MODULE Spec2Model ----
(***************************************************************************)
(* State-machine model of the two SurveyJS custom widgets of this          *)
(* repository: the geopoint widget (src/src/geopoint.js) and the           *)
(* microphone widget (src/src/microphone.js).                              *)
(*                                                                         *)
(* Leaflet, Leaflet.draw, RecordRTC and the browser are collaborators of   *)
(* the widgets; they are modelled by the part of their behaviour the       *)
(* widgets' code relies on (layer sets of a map and of a feature group,    *)
(* open/stopped device streams, pending asynchronous callbacks).           *)
(***************************************************************************)
EXTENDS Integers, Sequences, FiniteSets, TLC

(***************************************************************************)
(* Bounds of the model.                                                    *)
(***************************************************************************)
MaxPts == 3        \* most vertices of a drawn line or of a polygon ring
MaxHoles == 1      \* most inner rings of a created polygon
MaxEvents == 2     \* most user/draw events handled by one render
MaxRenders == 2    \* most renders (afterRender calls) of the question
MaxStarts == 2     \* most clicks on the record buttons
MaxStops == 1      \* most clicks on the save buttons

(***************************************************************************)
(* Coordinates.  Two latitudes and two longitudes, never equal to each     *)
(* other, so that swapping lat and lng is visible.                         *)
(***************************************************************************)
P1 == [lat |-> 10, lng |-> 20]
P2 == [lat |-> 11, lng |-> 21]
Points == {P1, P2}

SeqsOfLen(S, n) == [1..n -> S]
SeqsBetween(S, lo, hi) == UNION {SeqsOfLen(S, n) : n \in lo..hi}

(***************************************************************************)
(* JavaScript values held by question.value.  One record shape for all of  *)
(* them: def (not undefined), isArray (Array.isArray), the own properties  *)
(* lat/lng (hasLatLng), trace (hasTrace) and area (hasArea), and the       *)
(* elements of an array.                                                   *)
(***************************************************************************)
JsUndefined ==
    [def |-> FALSE, isArray |-> FALSE, hasLatLng |-> FALSE, lat |-> 0, lng |-> 0,
     elems |-> <<>>, hasTrace |-> FALSE, trace |-> <<>>, hasArea |-> FALSE, area |-> <<>>]

\* { lat: .., lng: .. }  (geopoint.js lines 60, 67, 90)
JsPoint(lat, lng) ==
    [JsUndefined EXCEPT !.def = TRUE, !.hasLatLng = TRUE, !.lat = lat, !.lng = lng]

\* JsArray listing the vertices last to first
JsArrayReversed(pts) ==
    [JsUndefined EXCEPT !.def = TRUE, !.isArray = TRUE,
                        !.elems = [i \in 1..Len(pts) |->
                                      [lat |-> pts[Len(pts) + 1 - i].lat,
                                       lng |-> pts[Len(pts) + 1 - i].lng]]]

\* latlngs.map(pt => ({ lat: pt.lat, lng: pt.lng }))  (geopoint.js lines 93, 96)
JsArray(pts) ==
    [JsUndefined EXCEPT !.def = TRUE, !.isArray = TRUE,
                        !.elems = [i \in 1..Len(pts) |-> [lat |-> pts[i].lat, lng |-> pts[i].lng]]]

\* an object with any of the properties lat/lng, trace, area (the shapes the
\* "both" and "full" branches of the loader read, geopoint.js lines 119-128)
JsObject(hasLL, p, hasT, t, hasA, a) ==
    [def |-> TRUE, isArray |-> FALSE, hasLatLng |-> hasLL,
     lat |-> IF hasLL THEN p.lat ELSE 0, lng |-> IF hasLL THEN p.lng ELSE 0,
     elems |-> <<>>, hasTrace |-> hasT, trace |-> IF hasT THEN t ELSE <<>>,
     hasArea |-> hasA, area |-> IF hasA THEN a ELSE <<>>]

SampleTrace == <<P1, P2>>
SampleArea == <<P1, P2, P1>>

\* the values a question can hold when the widget is first rendered
SavedValues ==
    {JsUndefined}
    \cup {JsPoint(p.lat, p.lng) : p \in Points}
    \cup {JsArray(s) : s \in SeqsBetween(Points, 2, MaxPts)}
    \cup {JsObject(ll, P2, t, SampleTrace, a, SampleArea) : ll \in BOOLEAN, t \in BOOLEAN, a \in BOOLEAN}

\* the geometry kinds a saved value can be the serialization of: a point for
\* {lat, lng}; a trace for an array of two points; a trace or an area for a longer
\* array; "other" for an object the widget does not write
SavedShapes(v) ==
    IF ~v.def THEN {"none"}
    ELSE IF v.isArray THEN (IF Len(v.elems) >= 3 THEN {"trace", "area"} ELSE {"trace"})
    ELSE IF v.hasLatLng /\ ~v.hasTrace /\ ~v.hasArea THEN {"point"}
    ELSE {"other"}

\* the geoFormat property: "" stands for an absent property, "bogus" for a
\* string that is none of the modes
GeoFormats == {"", "current", "manual", "trace", "area", "both", "full", "bogus"}

(***************************************************************************)
(* Leaflet layers.  rings is what getLatLngs() is built from: a marker has *)
(* one ring of one point, a polyline one ring (its flat vertex list), a    *)
(* polygon its outer ring followed by its holes.                           *)
(***************************************************************************)
Layer(id, kind, rings) == [id |-> id, kind |-> kind, rings |-> rings]

SampleHole == <<P2, P2, P1>>

DrawnMarkers == {<<<<p>>>> : p \in Points}
DrawnLines == {<<s>> : s \in SeqsBetween(Points, 2, MaxPts)}
DrawnPolygons ==
    {<<outer>> \o holes : outer \in SeqsBetween(Points, 3, MaxPts),
                          holes \in SeqsBetween({SampleHole}, 0, MaxHoles)}

VARIABLES
    qGeoFormat,      \* question.geoFormat
    qReadOnly,       \* question.isReadOnly
    qValue,          \* question.value
    qCallbackSet,    \* question.valueChangedCallback assigned (line 154)
    phase,           \* "new", "rendered", "unmounted"
    renders,         \* afterRender calls so far
    events,          \* click and shape-created events handled by the current render
    lastId,          \* Leaflet's layer id counter, per render
    mapLayers,       \* layers displayed on the current render's map
    drawnItems,      \* ids of the layers of the drawnItems feature group
    mapView,         \* the map's view
    clickOn,         \* a "click" listener is registered on the map
    createdOn,       \* a L.Draw.Event.CREATED listener is registered on the map
    drawControl,     \* the draw control added to the map, if any
    geoReq,          \* the current render's location request
    staleReqs,       \* pending location requests of earlier renders
    requests,        \* location requests issued so far
    alerts,          \* alert() calls so far
    elLeafletId,     \* el._leaflet_id
    elLeafletMap,    \* el._leaflet_map
    mapRemoved,      \* map.remove() has run for the current render's map
    threw,           \* the last handler ended by an exception
    last,            \* history: the last step taken
    rehydrated,      \* history: the layers the last render's loader displayed
    valueShape,      \* history: the geometry kind qValue serializes
    committed,       \* history: the geometry of the last commit (kind, vertices)
    micPhase,        \* per microphone question: "new", "rendered", "unmounted"
    micReadOnly,     \* per question: question.isReadOnly
    micValue,        \* per question: question.value
    audioSrc,        \* per question: audioEl.src
    recordRTC,       \* question.survey.recordRTC
    mystream,        \* question.survey.mystream: 0 (undefined) or a stream
    streams,         \* the device streams getUserMedia has opened: "open" or "stopped"
    umPending,       \* per question: getUserMedia promises not yet settled
    procPending,     \* per question: processAudio callbacks RecordRTC still owes
    readPending,     \* FileReader loads not yet delivered: <<question, blob>>
    starts,          \* clicks on a record button so far
    stops,           \* clicks on a save button so far
    micAlerts,       \* alert("No microphone") calls so far
    micThrew,        \* the last microphone handler ended by an exception
    micLast,         \* history: the last microphone step
    owners           \* history: per stream of streams, the question whose start opened it

micVars == <<micPhase, micReadOnly, micValue, audioSrc, recordRTC, mystream, streams,
             umPending, procPending, readPending, starts, stops, micAlerts, micThrew,
             micLast, owners>>

geoVars == <<qGeoFormat, qReadOnly, qValue, qCallbackSet, phase, renders, events,
             lastId, mapLayers, drawnItems, mapView, clickOn, createdOn, drawControl,
             geoReq, staleReqs, requests, alerts, elLeafletId, elLeafletMap,
             mapRemoved, threw, last, rehydrated, valueShape,
             committed>>

vars == <<geoVars, micVars>>

NoControl == [on |-> FALSE, polyline |-> FALSE, polygon |-> FALSE, marker |-> FALSE]
\* the geometry a commit hands to the serializer: a marker's position, a line's
\* vertices, a polygon's outer ring (the spec's GeoPoint, GeoPath, GeoArea)
NoCommit == [kind |-> "none", pts |-> <<>>]
Commit(kind, rings) == [kind |-> kind, pts |-> rings[1]]

NoLast == [kind |-> "none", lat |-> 0, lng |-> 0, id |-> 0, rings |-> <<>>, shape |-> "none"]
Step(kind) == [NoLast EXCEPT !.kind = kind]

\* L.map(el).setView([0, 0], 2)  (line 41)
InitialView == [lat |-> 0, lng |-> 0, zoom |-> 2, fit |-> <<>>]

\* map.setView(latlng, 15)  (lines 59, 108)
SetView(lat, lng) == [lat |-> lat, lng |-> lng, zoom |-> 15, fit |-> <<>>]

\* map.fitBounds(bounds): the view is the one that fits the points
FitBounds(pts) == [lat |-> 0, lng |-> 0, zoom |-> 0, fit |-> pts]

GeoInit ==
    /\ qGeoFormat \in GeoFormats
    /\ qReadOnly \in BOOLEAN
    /\ qValue \in SavedValues
    /\ qCallbackSet = FALSE
    /\ phase = "new"
    /\ renders = 0
    /\ events = 0
    /\ lastId = 0
    /\ mapLayers = {}
    /\ drawnItems = {}
    /\ mapView = InitialView
    /\ clickOn = FALSE
    /\ createdOn = FALSE
    /\ drawControl = NoControl
    /\ geoReq = "none"
    /\ staleReqs = 0
    /\ requests = 0
    /\ alerts = 0
    /\ elLeafletId = FALSE
    /\ elLeafletMap = FALSE
    /\ mapRemoved = FALSE
    /\ threw = FALSE
    /\ last = NoLast
    /\ rehydrated = {}
    /\ valueShape \in SavedShapes(qValue)
    /\ committed = NoCommit

(***************************************************************************)
(* afterRender, geopoint.js lines 40-155                                   *)
(***************************************************************************)

\* const geoFormat = question.geoFormat || "current"  (line 54)
GeoFormatOf(configured) == IF configured = "" THEN "current" ELSE configured

DrawModes == {"trace", "area", "both", "full"}

\* DrawControlFor with every drawing tool enabled whatever the mode
DrawControlAllTools(gf) ==
    [on |-> TRUE, polyline |-> TRUE, polygon |-> TRUE, marker |-> TRUE]

\* new L.Control.Draw({draw: {polyline: .., polygon: .., marker: ..}})  (lines 71-81)
DrawControlFor(gf) ==
    [on |-> TRUE,
     polyline |-> gf \in {"trace", "both", "full"},
     polygon |-> gf \in {"area", "both", "full"},
     marker |-> gf = "full"]

\* L.Marker has no getBounds method: marker.getBounds() (line 134) is a TypeError
MarkerHasGetBounds == FALSE

\* HasSavedValue without the test: the loader runs on an absent value too
HasSavedValueAlways(v) == TRUE

\* if (question.value)  (line 103)
HasSavedValue(v) == v.def

\* the "Load saved value" block (lines 103-151): the layers it adds to the map,
\* those of them it adds to drawnItems, the view it leaves and whether it throws.
\* fitBounds throws on bounds that hold no point.
LoadSaved(gf, v, view) ==
    LET none == [layers |-> {}, grp |-> {}, view |-> view, threw |-> FALSE] IN
    IF ~HasSavedValue(v) THEN none
    ELSE IF gf \in {"current", "manual"} THEN
        IF v.hasLatLng
        THEN [layers |-> {Layer(1, "marker", <<<<[lat |-> v.lat, lng |-> v.lng]>>>>)},
              grp |-> {}, view |-> SetView(v.lat, v.lng), threw |-> FALSE]
        ELSE none
    ELSE IF gf = "trace" /\ v.isArray THEN
        [layers |-> {Layer(1, "polyline", <<v.elems>>)}, grp |-> {1},
         view |-> IF v.elems = <<>> THEN view ELSE FitBounds(v.elems),
         threw |-> (v.elems = <<>>)]
    ELSE IF gf = "area" /\ v.isArray THEN
        [layers |-> {Layer(1, "polygon", <<v.elems>>)}, grp |-> {1},
         view |-> IF v.elems = <<>> THEN view ELSE FitBounds(v.elems),
         threw |-> (v.elems = <<>>)]
    ELSE IF gf = "both" THEN
        LET trace == IF v.hasTrace THEN v.trace ELSE <<>>
            area == IF v.hasArea THEN v.area ELSE <<>>
        IN [layers |-> {Layer(1, "polyline", <<trace>>), Layer(2, "polygon", <<area>>)},
            grp |-> {1, 2},
            view |-> IF trace \o area = <<>> THEN view ELSE FitBounds(trace \o area),
            threw |-> (trace \o area = <<>>)]
    ELSE IF gf = "full" THEN
        IF v.hasLatLng
        THEN LET marker == Layer(1, "marker", <<<<[lat |-> v.lat, lng |-> v.lng]>>>>)
                 line == IF v.hasTrace THEN {Layer(2, "polyline", <<v.trace>>)} ELSE {}
                 poly == IF v.hasArea THEN {Layer(3, "polygon", <<v.area>>)} ELSE {}
             IN IF MarkerHasGetBounds
                THEN [layers |-> {marker} \cup line \cup poly,
                      grp |-> {l.id : l \in {marker} \cup line \cup poly},
                      view |-> FitBounds(<<[lat |-> v.lat, lng |-> v.lng]>>
                                         \o (IF v.hasTrace THEN v.trace ELSE <<>>)
                                         \o (IF v.hasArea THEN v.area ELSE <<>>)),
                      threw |-> FALSE]
                ELSE [layers |-> {marker}, grp |-> {1}, view |-> view, threw |-> TRUE]
        ELSE none
    ELSE none

AfterRender ==
    /\ phase \in {"new", "unmounted"}
    /\ renders < MaxRenders
    /\ LET gf == GeoFormatOf(qGeoFormat)
           loaded == LoadSaved(gf, qValue, InitialView)
       IN /\ mapLayers' = loaded.layers
          /\ rehydrated' = loaded.layers
          /\ drawnItems' = loaded.grp
          /\ mapView' = loaded.view
          /\ threw' = loaded.threw
          /\ qCallbackSet' = (qCallbackSet \/ ~loaded.threw)
          /\ geoReq' = IF gf = "current" THEN "pending" ELSE "none"
          /\ requests' = IF gf = "current" THEN requests + 1 ELSE requests
          /\ clickOn' = (gf = "manual")
          /\ createdOn' = (gf \in DrawModes)
          /\ drawControl' = IF gf \in DrawModes THEN DrawControlFor(gf) ELSE NoControl
    /\ staleReqs' = IF geoReq = "pending" THEN staleReqs + 1 ELSE staleReqs
    /\ phase' = "rendered"
    /\ renders' = renders + 1
    /\ events' = 0
    /\ lastId' = 3
    /\ elLeafletId' = TRUE
    /\ elLeafletMap' = FALSE
    /\ mapRemoved' = FALSE
    /\ last' = Step("render")
    /\ UNCHANGED micVars
    /\ UNCHANGED <<qGeoFormat, qReadOnly, qValue, alerts, valueShape, committed>>

(***************************************************************************)
(* The callbacks afterRender registers                                     *)
(***************************************************************************)

\* ClearLayers emptying the group without taking its layers off the map
ClearLayersLeavesMap(layers, grp) == layers

\* drawnItems.clearLayers(): every layer of the group leaves the group and the map
ClearLayers(layers, grp) == {l \in layers : l.id \notin grp}

\* getCurrentPosition success callback of the current render (lines 56-60)
LocationSuccess(p) ==
    /\ geoReq = "pending"
    /\ geoReq' = "done"
    /\ lastId' = lastId + 1
    /\ mapLayers' = mapLayers \cup {Layer(lastId + 1, "marker", <<<<p>>>>)}
    /\ mapView' = SetView(p.lat, p.lng)
    /\ qValue' = JsPoint(p.lat, p.lng)
    /\ threw' = FALSE
    /\ last' = [Step("located") EXCEPT !.lat = p.lat, !.lng = p.lng, !.id = lastId + 1]
    /\ valueShape' = "point"
    /\ committed' = Commit("marker", <<<<p>>>>)
    /\ UNCHANGED rehydrated
    /\ UNCHANGED micVars
    /\ UNCHANGED <<qGeoFormat, qReadOnly, qCallbackSet, phase, renders, events, drawnItems,
                   clickOn, createdOn, drawControl, staleReqs, requests, alerts,
                   elLeafletId, elLeafletMap, mapRemoved>>

\* LocationError with a fallback position committed on failure
LocationErrorCommitsDefault ==
    /\ geoReq = "pending"
    /\ geoReq' = "failed"
    /\ alerts' = alerts + 1
    /\ qValue' = JsPoint(0, 0)
    /\ valueShape' = "point"
    /\ threw' = FALSE
    /\ last' = Step("locfail")
    /\ UNCHANGED <<rehydrated, committed>>
    /\ UNCHANGED micVars
    /\ UNCHANGED <<qGeoFormat, qReadOnly, qCallbackSet, phase, renders, events,
                   lastId, mapLayers, drawnItems, mapView, clickOn, createdOn, drawControl,
                   staleReqs, requests, elLeafletId, elLeafletMap, mapRemoved>>

\* LocationError asking for the position once more after the first failure
LocationErrorRetries ==
    /\ geoReq = "pending"
    /\ geoReq' = IF alerts = 0 THEN "pending" ELSE "failed"
    /\ requests' = IF alerts = 0 THEN requests + 1 ELSE requests
    /\ alerts' = alerts + 1
    /\ threw' = FALSE
    /\ last' = Step("locfail")
    /\ UNCHANGED <<rehydrated, valueShape, committed>>
    /\ UNCHANGED micVars
    /\ UNCHANGED <<qGeoFormat, qReadOnly, qValue, qCallbackSet, phase, renders, events,
                   lastId, mapLayers, drawnItems, mapView, clickOn, createdOn, drawControl,
                   staleReqs, elLeafletId, elLeafletMap, mapRemoved>>

\* getCurrentPosition error callback of the current render (line 61)
LocationError ==
    /\ geoReq = "pending"
    /\ geoReq' = "failed"
    /\ alerts' = alerts + 1
    /\ threw' = FALSE
    /\ last' = Step("locfail")
    /\ UNCHANGED <<rehydrated, valueShape, committed>>
    /\ UNCHANGED micVars
    /\ UNCHANGED <<qGeoFormat, qReadOnly, qValue, qCallbackSet, phase, renders, events,
                   lastId, mapLayers, drawnItems, mapView, clickOn, createdOn, drawControl,
                   staleReqs, requests, elLeafletId, elLeafletMap, mapRemoved>>

\* the same two callbacks, of a request issued by an earlier render: the marker
\* and the view go to that render's map, the value to the question
StaleLocationSuccess(p) ==
    /\ staleReqs > 0
    /\ staleReqs' = staleReqs - 1
    /\ qValue' = JsPoint(p.lat, p.lng)
    /\ threw' = FALSE
    /\ last' = [Step("staleLocated") EXCEPT !.lat = p.lat, !.lng = p.lng]
    /\ valueShape' = "point"
    /\ committed' = Commit("marker", <<<<p>>>>)
    /\ UNCHANGED rehydrated
    /\ UNCHANGED micVars
    /\ UNCHANGED <<qGeoFormat, qReadOnly, qCallbackSet, phase, renders, events, lastId,
                   mapLayers, drawnItems, mapView, clickOn, createdOn, drawControl,
                   geoReq, requests, alerts, elLeafletId, elLeafletMap, mapRemoved>>

StaleLocationError ==
    /\ staleReqs > 0
    /\ staleReqs' = staleReqs - 1
    /\ alerts' = alerts + 1
    /\ threw' = FALSE
    /\ last' = Step("staleLocfail")
    /\ UNCHANGED <<rehydrated, valueShape, committed>>
    /\ UNCHANGED micVars
    /\ UNCHANGED <<qGeoFormat, qReadOnly, qValue, qCallbackSet, phase, renders, events,
                   lastId, mapLayers, drawnItems, mapView, clickOn, createdOn, drawControl,
                   geoReq, requests, elLeafletId, elLeafletMap, mapRemoved>>

\* map "click" listener (lines 64-68)
MapClick(p) ==
    /\ phase = "rendered"
    /\ clickOn /\ ~mapRemoved
    /\ events < MaxEvents
    /\ events' = events + 1
    /\ lastId' = lastId + 1
    /\ mapLayers' = ClearLayers(mapLayers, drawnItems) \cup {Layer(lastId + 1, "marker", <<<<p>>>>)}
    /\ drawnItems' = {lastId + 1}
    /\ qValue' = JsPoint(p.lat, p.lng)
    /\ threw' = FALSE
    /\ last' = [Step("click") EXCEPT !.lat = p.lat, !.lng = p.lng, !.id = lastId + 1]
    /\ valueShape' = "point"
    /\ committed' = Commit("marker", <<<<p>>>>)
    /\ UNCHANGED rehydrated
    /\ UNCHANGED micVars
    /\ UNCHANGED <<qGeoFormat, qReadOnly, qCallbackSet, phase, renders, mapView, clickOn,
                   createdOn, drawControl, geoReq, staleReqs, requests, alerts,
                   elLeafletId, elLeafletMap, mapRemoved>>

\* CreatedValue reading a polygon's last ring instead of its first
CreatedValueLastRing(kind, rings) ==
    IF kind = "marker" THEN JsPoint(rings[1][1].lat, rings[1][1].lng)
    ELSE IF kind = "polyline" THEN JsArray(rings[1])
    ELSE IF kind = "polygon" THEN JsArray(rings[Len(rings)])
    ELSE JsUndefined

\* the value the CREATED listener builds from e.layer (lines 87-97): a marker's
\* position, every vertex of a polyline, the first ring of a polygon
CreatedValue(kind, rings) ==
    IF kind = "marker" THEN JsPoint(rings[1][1].lat, rings[1][1].lng)
    ELSE IF kind = "polyline" THEN JsArray(rings[1])
    ELSE IF kind = "polygon" THEN JsArray(rings[1])
    ELSE JsUndefined

\* the geometry kind of the value built from a created layer
ShapeOfKind(kind) ==
    IF kind = "marker" THEN "point" ELSE IF kind = "polyline" THEN "trace" ELSE "area"

\* the shapes the installed draw control lets the user finish
Drawable(ctl) ==
    {<<"marker", r>> : r \in IF ctl.marker THEN DrawnMarkers ELSE {}}
    \cup {<<"polyline", r>> : r \in IF ctl.polyline THEN DrawnLines ELSE {}}
    \cup {<<"polygon", r>> : r \in IF ctl.polygon THEN DrawnPolygons ELSE {}}

\* map L.Draw.Event.CREATED listener (lines 84-99)
ShapeCreated(kind, rings) ==
    /\ phase = "rendered"
    /\ createdOn /\ ~mapRemoved
    /\ drawControl.on
    /\ events < MaxEvents
    /\ events' = events + 1
    /\ lastId' = lastId + 1
    /\ mapLayers' = ClearLayers(mapLayers, drawnItems) \cup {Layer(lastId + 1, kind, rings)}
    /\ drawnItems' = {lastId + 1}
    /\ qValue' = CreatedValue(kind, rings)
    /\ threw' = FALSE
    /\ last' = [Step("created") EXCEPT !.id = lastId + 1, !.rings = rings, !.shape = kind]
    /\ valueShape' = ShapeOfKind(kind)
    /\ committed' = Commit(kind, rings)
    /\ UNCHANGED rehydrated
    /\ UNCHANGED micVars
    /\ UNCHANGED <<qGeoFormat, qReadOnly, qCallbackSet, phase, renders, mapView, clickOn,
                   createdOn, drawControl, geoReq, staleReqs, requests, alerts,
                   elLeafletId, elLeafletMap, mapRemoved>>

(***************************************************************************)
(* willUnmount, geopoint.js lines 157-161                                  *)
(***************************************************************************)
WillUnmount ==
    /\ phase = "rendered"
    /\ phase' = "unmounted"
    /\ LET removes == elLeafletId /\ elLeafletMap
       IN /\ mapRemoved' = removes
          /\ clickOn' = IF removes THEN FALSE ELSE clickOn
          /\ createdOn' = IF removes THEN FALSE ELSE createdOn
          /\ drawControl' = IF removes THEN NoControl ELSE drawControl
          /\ mapLayers' = IF removes THEN {} ELSE mapLayers
          /\ drawnItems' = IF removes THEN {} ELSE drawnItems
    /\ threw' = FALSE
    /\ last' = Step("unmount")
    /\ UNCHANGED <<rehydrated, valueShape, committed>>
    /\ UNCHANGED micVars
    /\ UNCHANGED <<qGeoFormat, qReadOnly, qValue, qCallbackSet, renders, events, lastId,
                   mapView, geoReq, staleReqs, requests, alerts, elLeafletId, elLeafletMap>>

GeoNext ==
    \/ AfterRender
    \/ \E p \in Points : LocationSuccess(p)
    \/ LocationError
    \/ \E p \in Points : StaleLocationSuccess(p)
    \/ StaleLocationError
    \/ \E p \in Points : MapClick(p)
    \/ \E shape \in Drawable(drawControl) : ShapeCreated(shape[1], shape[2])
    \/ WillUnmount

(***************************************************************************)
(* The microphone widget, src/src/microphone.js                            *)
(***************************************************************************)
MicQuestions == {"A", "B"}

\* question.value of a microphone question: undefined, or the data URI of a
\* recording; blob names the stream the recording was made from (0: a value
\* saved before the survey was opened)
NoAudio == [def |-> FALSE, blob |-> 0]
Audio(blob) == [def |-> TRUE, blob |-> blob]

\* question.survey.recordRTC: undefined, or the recorder RecordRTC(stream, options) made
NoRecorder == [def |-> FALSE, stream |-> 0, state |-> "none"]
Recorder(stream) == [def |-> TRUE, stream |-> stream, state |-> "recording"]

NoMicStep == [kind |-> "none", q |-> "", active |-> FALSE, stream |-> 0]
MicStep(kind, q) == [NoMicStep EXCEPT !.kind = kind, !.q = q]

MicInit ==
    /\ micPhase = [q \in MicQuestions |-> "new"]
    /\ micReadOnly \in [MicQuestions -> BOOLEAN]
    /\ micValue \in [MicQuestions -> {NoAudio, Audio(0)}]
    /\ audioSrc = [q \in MicQuestions |-> NoAudio]
    /\ recordRTC = NoRecorder
    /\ mystream = 0
    /\ streams = <<>>
    /\ umPending = [q \in MicQuestions |-> 0]
    /\ procPending = [q \in MicQuestions |-> 0]
    /\ readPending = <<>>
    /\ starts = 0
    /\ stops = 0
    /\ micAlerts = 0
    /\ micThrew = FALSE
    /\ micLast = NoMicStep
    /\ owners = <<>>

\* afterRender (lines 64-185): the handlers are closures over question; what the
\* render itself does is wire the two buttons and show the saved value
MicAfterRender(q) ==
    /\ micPhase[q] = "new"
    /\ micPhase' = [micPhase EXCEPT ![q] = "rendered"]
    /\ audioSrc' = [audioSrc EXCEPT ![q] = micValue[q]]
    /\ micThrew' = FALSE
    /\ micLast' = MicStep("render", q)
    /\ UNCHANGED geoVars
    /\ UNCHANGED <<owners, micReadOnly, micValue, recordRTC, mystream, streams, umPending,
                   procPending, readPending, starts, stops, micAlerts>>

\* the wiring without the isReadOnly test of lines 165 and 171
ButtonsWiredAlways(q) == micPhase[q] = "rendered"

\* buttonStartEl.onclick / buttonStopEl.onclick are set (lines 165-175)
ButtonsWired(q) == micPhase[q] = "rendered" /\ ~micReadOnly[q]

\* mystream.getAudioTracks().forEach(track => track.stop())  (lines 132-134, 156-158, 190-192)
StopTracks(ss, stream) ==
    IF stream = 0 THEN ss ELSE [ss EXCEPT ![stream] = "stopped"]

\* startRecording (lines 121-146)
StartRecording(q) ==
    /\ ButtonsWired(q)
    /\ starts < MaxStarts
    /\ starts' = starts + 1
    /\ micValue' = [micValue EXCEPT ![q] = NoAudio]
    /\ IF recordRTC.def
       THEN /\ recordRTC' = [recordRTC EXCEPT !.state = "stopped"]
            /\ streams' = StopTracks(streams, mystream)
       ELSE UNCHANGED <<recordRTC, streams>>
    /\ umPending' = [umPending EXCEPT ![q] = @ + 1]
    /\ micThrew' = FALSE
    /\ micLast' = [MicStep("start", q) EXCEPT !.active = recordRTC.def, !.stream = mystream]
    /\ UNCHANGED geoVars
    /\ UNCHANGED <<owners, micPhase, micReadOnly, audioSrc, mystream, procPending, readPending,
                   stops, micAlerts>>

\* getUserMedia resolves with a new open stream: successCallback (lines 75-95)
SuccessCallback(q) ==
    /\ umPending[q] > 0
    /\ umPending' = [umPending EXCEPT ![q] = @ - 1]
    /\ streams' = Append(streams, "open")
    /\ mystream' = Len(streams) + 1
    /\ recordRTC' = Recorder(Len(streams) + 1)
    /\ micThrew' = FALSE
    /\ owners' = Append(owners, q)
    /\ micLast' = [MicStep("granted", q) EXCEPT !.active = recordRTC.def, !.stream = Len(streams) + 1]
    /\ UNCHANGED geoVars
    /\ UNCHANGED <<micPhase, micReadOnly, micValue, audioSrc, procPending, readPending,
                   starts, stops, micAlerts>>

\* getUserMedia rejects: errorCallback (lines 97-101)
ErrorCallback(q) ==
    /\ umPending[q] > 0
    /\ umPending' = [umPending EXCEPT ![q] = @ - 1]
    /\ micAlerts' = micAlerts + 1
    /\ recordRTC' = NoRecorder
    /\ mystream' = 0
    /\ micThrew' = FALSE
    /\ micLast' = [MicStep("denied", q) EXCEPT !.active = recordRTC.def, !.stream = mystream]
    /\ UNCHANGED geoVars
    /\ UNCHANGED <<owners, micPhase, micReadOnly, micValue, audioSrc, streams, procPending,
                   readPending, starts, stops>>

\* stopRecording (lines 148-161)
StopRecording(q) ==
    /\ ButtonsWired(q)
    /\ stops < MaxStops
    /\ stops' = stops + 1
    /\ IF recordRTC.def
       THEN /\ recordRTC' = [recordRTC EXCEPT !.state = "stopped"]
            /\ procPending' = [procPending EXCEPT ![q] = @ + 1]
            /\ streams' = StopTracks(streams, mystream)
       ELSE UNCHANGED <<recordRTC, procPending, streams>>
    /\ micThrew' = FALSE
    /\ micLast' = [MicStep("stop", q) EXCEPT !.active = recordRTC.def, !.stream = mystream]
    /\ UNCHANGED geoVars
    /\ UNCHANGED <<owners, micPhase, micReadOnly, micValue, audioSrc, mystream, umPending,
                   readPending, starts, micAlerts>>

\* processAudio (lines 103-119), called back by RecordRTC once the recorder has
\* stopped: question.survey.recordRTC.getBlob() is a TypeError when the reference
\* was cleared in the meantime
ProcessAudio(q) ==
    /\ procPending[q] > 0
    /\ procPending' = [procPending EXCEPT ![q] = @ - 1]
    /\ IF recordRTC.def
       THEN /\ readPending' = Append(readPending, <<q, recordRTC.stream>>)
            /\ micThrew' = FALSE
       ELSE /\ readPending' = readPending
            /\ micThrew' = TRUE
    /\ micLast' = [MicStep("process", q) EXCEPT !.active = recordRTC.def, !.stream = recordRTC.stream]
    /\ UNCHANGED geoVars
    /\ UNCHANGED <<owners, micPhase, micReadOnly, micValue, audioSrc, recordRTC, mystream, streams,
                   umPending, starts, stops, micAlerts>>

\* fileReader.onload (lines 108-117)
FileReaderOnload(i) ==
    /\ i \in 1..Len(readPending)
    /\ LET q == readPending[i][1]
           blob == readPending[i][2]
       IN /\ micValue' = [micValue EXCEPT ![q] = Audio(blob)]
          /\ audioSrc' = [audioSrc EXCEPT ![q] = Audio(blob)]
          /\ micLast' = [MicStep("encoded", q) EXCEPT !.active = recordRTC.def, !.stream = blob]
    /\ readPending' = [j \in 1..(Len(readPending) - 1) |->
                          IF j < i THEN readPending[j] ELSE readPending[j + 1]]
    /\ recordRTC' = NoRecorder
    /\ mystream' = 0
    /\ micThrew' = FALSE
    /\ UNCHANGED geoVars
    /\ UNCHANGED <<owners, micPhase, micReadOnly, streams, umPending, procPending, starts, stops,
                   micAlerts>>

\* doNothingHandler is a var of afterRender (line 181): the name is not in scope
\* in willUnmount, where evaluating it (line 188) is a ReferenceError
DoNothingHandlerInScope == FALSE

\* willUnmount (lines 186-198)
MicWillUnmount(q) ==
    /\ micPhase[q] = "rendered"
    /\ micPhase' = [micPhase EXCEPT ![q] = "unmounted"]
    /\ IF ~recordRTC.def
       THEN /\ micThrew' = FALSE
            /\ UNCHANGED <<recordRTC, mystream, streams, micValue>>
       ELSE IF DoNothingHandlerInScope
       THEN /\ streams' = StopTracks(streams, mystream)
            /\ micValue' = [micValue EXCEPT ![q] = NoAudio]
            /\ recordRTC' = NoRecorder
            /\ mystream' = 0
            /\ micThrew' = FALSE
       ELSE /\ micThrew' = TRUE
            /\ UNCHANGED <<recordRTC, mystream, streams, micValue>>
    /\ micLast' = [MicStep("unmount", q) EXCEPT !.active = recordRTC.def, !.stream = mystream]
    /\ UNCHANGED geoVars
    /\ UNCHANGED <<owners, micReadOnly, audioSrc, umPending, procPending, readPending, starts,
                   stops, micAlerts>>

MicNext ==
    \/ \E q \in MicQuestions : MicAfterRender(q)
    \/ \E q \in MicQuestions : StartRecording(q)
    \/ \E q \in MicQuestions : SuccessCallback(q)
    \/ \E q \in MicQuestions : ErrorCallback(q)
    \/ \E q \in MicQuestions : StopRecording(q)
    \/ \E q \in MicQuestions : ProcessAudio(q)
    \/ \E i \in 1..MaxStops : FileReaderOnload(i)
    \/ \E q \in MicQuestions : MicWillUnmount(q)

(***************************************************************************)
(* Specifications: Spec runs the geopoint widget, MicSpec the microphone   *)
(* widget.                                                                 *)
(***************************************************************************)
\* the microphone questions before any of them is rendered, writable, without a value
MicIdle ==
    /\ MicInit
    /\ micReadOnly = [q \in MicQuestions |-> FALSE]
    /\ micValue = [q \in MicQuestions |-> NoAudio]

\* the geopoint question before it is rendered, in its default configuration
GeoIdle ==
    /\ GeoInit
    /\ qGeoFormat = ""
    /\ qReadOnly = FALSE
    /\ qValue = JsUndefined

Init == GeoInit /\ MicIdle

Next == GeoNext

Spec == Init /\ [][Next]_vars

MicSpecInit == GeoIdle /\ MicInit

MicSpec == MicSpecInit /\ [][MicNext]_vars

(***************************************************************************)
(* Properties of the geopoint widget, checked under Spec                   *)
(***************************************************************************)

\* the mode afterRender resolved (line 54)
Mode == GeoFormatOf(qGeoFormat)

Markers == {l \in mapLayers : l.kind = "marker"}

\* C1: manual mode: after a click exactly one marker is displayed on the map and
\* the field value is {lat, lng} of that click, whatever the field held at render
\* (nothing, or a saved point the render displayed as a marker).
C1_ClickLeavesOneMarker ==
    (Mode = "manual" /\ last.kind = "click") =>
        /\ Cardinality(Markers) = 1
        /\ qValue = JsPoint(last.lat, last.lng)

\* C2: trace and area modes: at most one shape is ever overlaid on the map, and
\* after a shape-created event the map shows exactly the created shape, also when
\* the shape it replaces was drawn from the saved value at render.
C2_AtMostOneShape ==
    Mode \in {"trace", "area"} =>
        /\ Cardinality(mapLayers) <= 1
        /\ last.kind = "created" => mapLayers = {Layer(last.id, last.shape, last.rings)}

\* C2 witness: a shape was created over a shape rehydrated from the saved value
C2_Witness ==
    /\ Mode \in {"trace", "area"}
    /\ last.kind = "created"
    /\ events = 1
    /\ rehydrated # {}
    /\ Cardinality(mapLayers) = 1

\* C3: current mode: a location result that arrives after willUnmount changes
\* neither the field value nor the map of the unmounted render.
C3_LateCallbackIsNoOp ==
    [][(phase = "unmounted" /\ phase' = "unmounted" /\ geoReq = "pending" /\ geoReq' = "done")
          => (qValue' = qValue /\ mapLayers' = mapLayers /\ mapView' = mapView)]_vars

\* C4: a render in area mode of a saved trace, or in trace mode of a saved area,
\* overlays no shape and raises nothing.
C4_MismatchStartsBlank ==
    (/\ last.kind = "render"
     /\ \/ (Mode = "area" /\ valueShape = "trace")
        \/ (Mode = "trace" /\ valueShape = "area"))
        => (rehydrated = {} /\ mapLayers = {} /\ ~threw)

RecognizedModes == {"current", "manual", "trace", "area", "both", "full"}

\* C5: a render whose geoFormat is absent or is none of the modes does what a
\* render in mode current does: it issues the location request, wires no click
\* or draw handler and displays a saved point.
C5_UnknownModeIsCurrent ==
    (last.kind = "render" /\ qGeoFormat \notin RecognizedModes) =>
        /\ geoReq = "pending"
        /\ ~clickOn /\ ~createdOn /\ ~drawControl.on
        /\ rehydrated = LoadSaved("current", qValue, InitialView).layers
        /\ mapView = LoadSaved("current", qValue, InitialView).view
        /\ ~threw

\* C6: a read-only question gets no capture wiring from its render, in any mode:
\* no location request, no click handler, no draw control, no shape-created handler.
C6_ReadOnlyNotWired ==
    (qReadOnly /\ phase = "rendered") =>
        /\ geoReq = "none"
        /\ ~clickOn /\ ~createdOn /\ ~drawControl.on

\* the location requests still awaited, of this render and of earlier ones
PendingRequests == staleReqs + (IF geoReq = "pending" THEN 1 ELSE 0)

\* C7: when a location request fails, one notice is shown, the field value and
\* the map's layers are left as they were, and no request is issued: a request is
\* only ever issued by a render.
C7_FailureCommitsNothing ==
    [][/\ last'.kind \in {"locfail", "staleLocfail"} =>
            /\ alerts' = alerts + 1
            /\ qValue' = qValue
            /\ mapLayers' = mapLayers
            /\ requests' = requests
            /\ PendingRequests' = PendingRequests - 1
       /\ requests' # requests => (renders' = renders + 1 /\ requests' = requests + 1)]_vars

\* C7 witness: the request of a render without saved value has failed
C7_Witness ==
    /\ last.kind = "locfail"
    /\ geoReq = "failed"
    /\ alerts = 1
    /\ ~qValue.def
    /\ mapLayers = {}

\* C8: after willUnmount the render's map is disposed and no click or
\* shape-created listener of that render is left registered.
C8_UnmountDisposesMap ==
    phase = "unmounted" => (mapRemoved /\ ~clickOn /\ ~createdOn)

(***************************************************************************)
(* Properties of the microphone widget, checked under MicSpec              *)
(***************************************************************************)

OpenStreams == {i \in 1..Len(streams) : streams[i] = "open"}

\* C9: there are never two open device streams, and every open stream is the one
\* survey.mystream refers to.
C9_OneOpenStream ==
    /\ Cardinality(OpenStreams) <= 1
    /\ \A i \in OpenStreams : mystream = i

\* C10: willUnmount run while a recording session is active raises nothing, stops
\* the stream's tracks and clears survey.recordRTC and survey.mystream.
C10_UnmountReleasesSession ==
    (micLast.kind = "unmount" /\ micLast.active /\ micLast.stream # 0) =>
        /\ ~micThrew
        /\ streams[micLast.stream] = "stopped"
        /\ ~recordRTC.def
        /\ mystream = 0

(***************************************************************************)
(* Further properties of the geopoint widget, checked under Spec           *)
(***************************************************************************)

RequiredModes == {"current", "manual", "trace", "area"}

\* C11: round trip in the modes current, manual, trace and area: the render that
\* follows a commit displays exactly one geometry, of the committed kind, with the
\* committed coordinates in the committed order (a polygon's geometry being its
\* outer ring), and raises nothing.
C11_RoundTrip ==
    (last.kind = "render" /\ Mode \in RequiredModes /\ committed.kind # "none") =>
        /\ ~threw
        /\ \E l \in rehydrated :
              /\ rehydrated = {l}
              /\ l.kind = committed.kind
              /\ l.rings = <<committed.pts>>

\* C11 witness: a drawn polygon of three or more vertices is displayed again by
\* the next render
C11_Witness ==
    /\ last.kind = "render"
    /\ renders = 2
    /\ Mode = "area"
    /\ committed.kind = "polygon"
    /\ Len(committed.pts) >= 3
    /\ rehydrated # {}

\* the two shapes of a value the required modes store
IsPointValue(v) == v.def /\ ~v.isArray /\ v.hasLatLng /\ ~v.hasTrace /\ ~v.hasArea
IsArrayValue(v) == v.def /\ v.isArray /\ ~v.hasLatLng /\ ~v.hasTrace /\ ~v.hasArea

\* C12: in the modes current, manual, trace and area, once the widget has written
\* a value the stored value has the shape of the mode: a single {lat, lng} point
\* written from a position or a click in current and manual, an array of points
\* written from a line in trace and from a polygon in area.
C12_StoredShapeMatchesMode ==
    (committed.kind # "none" /\ Mode \in RequiredModes) =>
        /\ Mode \in {"current", "manual"} =>
              (committed.kind = "marker" /\ valueShape = "point" /\ IsPointValue(qValue))
        /\ Mode = "trace" =>
              (committed.kind = "polyline" /\ valueShape = "trace" /\ IsArrayValue(qValue)
               /\ Len(qValue.elems) = Len(committed.pts))
        /\ Mode = "area" =>
              (committed.kind = "polygon" /\ valueShape = "area" /\ IsArrayValue(qValue)
               /\ Len(qValue.elems) = Len(committed.pts))

\* C12 witness: a line drawn in trace mode has been stored as an array
C12_Witness ==
    /\ Mode = "trace"
    /\ last.kind = "created"
    /\ committed.kind = "polyline"
    /\ IsArrayValue(qValue)

\* C13: in mode current every render has issued exactly one location request, at
\* render time, also after failures (no retry); in the modes manual, trace and
\* area no request is ever issued.
C13_OneRequestPerRender ==
    /\ Mode = "current" =>
          /\ requests = renders
          /\ PendingRequests <= renders
          /\ last.kind = "render" => geoReq = "pending"
    /\ Mode \in {"manual", "trace", "area"} => (requests = 0 /\ geoReq = "none")

\* C13 witness: two renders in mode current, the request of one has failed, and
\* two requests have been issued in all
C13_Witness ==
    /\ Mode = "current"
    /\ renders = 2
    /\ alerts >= 1
    /\ requests = 2

CommitSteps == {"located", "staleLocated", "click", "created"}

\* C14: while the field value is absent, a render in any valid mode leaves the
\* overlay empty and raises nothing, and the value becomes present only by a
\* commit: a location result, a click or a shape-created event.
C14_AbsentUntilCommit ==
    [][(~qValue.def /\ Mode \in RecognizedModes) =>
          /\ last'.kind = "render" => (mapLayers' = {} /\ rehydrated' = {} /\ ~threw')
          /\ qValue'.def => last'.kind \in CommitSteps]_vars

\* C14 witness: an area question without value was rendered and unmounted, still
\* blank and without value
C14_Witness ==
    /\ Mode = "area"
    /\ last.kind = "unmount"
    /\ ~qValue.def
    /\ mapLayers = {}
    /\ committed.kind = "none"

\* C15: mode current: after the location request of the mounted render succeeds,
\* the field value is {lat, lng} of the reported position, the view is centred on
\* it, and exactly one marker is displayed, at that position, whatever the field
\* held at render.
C15_SuccessLeavesOneMarker ==
    (Mode = "current" /\ phase = "rendered" /\ last.kind = "located") =>
        /\ qValue = JsPoint(last.lat, last.lng)
        /\ mapView = SetView(last.lat, last.lng)
        /\ Markers = {Layer(last.id, "marker", <<<<[lat |-> last.lat, lng |-> last.lng]>>>>)}

\* C16: after a shape-created event for a line the value lists every vertex of
\* the line as {lat, lng}, in drawing order and with the same length; for a
\* polygon it lists the vertices of the first ring only, in order.
C16_SerializedInOrder ==
    (last.kind = "created" /\ last.shape \in {"polyline", "polygon"}) =>
        /\ IsArrayValue(qValue)
        /\ Len(qValue.elems) = Len(last.rings[1])
        /\ \A i \in 1..Len(last.rings[1]) :
              /\ qValue.elems[i].lat = last.rings[1][i].lat
              /\ qValue.elems[i].lng = last.rings[1][i].lng

\* C16 witness: a polygon with an inner ring was created and the value is its
\* outer ring
C16_Witness ==
    /\ last.kind = "created"
    /\ last.shape = "polygon"
    /\ Len(last.rings) >= 2
    /\ last.rings[2] # last.rings[1]
    /\ qValue.elems = last.rings[1]

\* C18: modes both and full: a shape-created event leaves the displayed shapes of
\* the other kinds on the map, stores the created shape in the slot of its kind
\* (lat/lng, trace, area) and leaves the other slots of the value as they were.
C18_SlotsAreIndependent ==
    [][(Mode \in {"both", "full"} /\ last'.kind = "created") =>
          /\ \A l \in mapLayers : l.kind # last'.shape => l \in mapLayers'
          /\ last'.shape = "marker" =>
                /\ qValue'.hasLatLng
                /\ qValue'.hasTrace = qValue.hasTrace /\ qValue'.trace = qValue.trace
                /\ qValue'.hasArea = qValue.hasArea /\ qValue'.area = qValue.area
          /\ last'.shape = "polyline" =>
                /\ qValue'.hasTrace /\ qValue'.trace = last'.rings[1]
                /\ qValue'.hasArea = qValue.hasArea /\ qValue'.area = qValue.area
          /\ last'.shape = "polygon" =>
                /\ qValue'.hasArea /\ qValue'.area = last'.rings[1]
                /\ qValue'.hasTrace = qValue.hasTrace /\ qValue'.trace = qValue.trace]_vars

\* the recording session in question.survey belongs to question q: q's start
\* opened the stream the recorder records
SessionOf(q) == recordRTC.def /\ owners[recordRTC.stream] = q

\* C17: with two microphone questions in one survey, a start, stop or unmount of
\* one question changes neither the value of the other question nor a recording
\* session the other question opened, and a recording made from a stream one
\* question opened is never stored as the value of the other question.
C17_QuestionsAreIsolated ==
    [][\A a \in MicQuestions :
          /\ (micLast'.kind \in {"start", "stop", "unmount"} /\ micLast'.q # a) =>
                 /\ micValue'[a] = micValue[a]
                 /\ SessionOf(a) =>
                        /\ recordRTC' = recordRTC
                        /\ mystream' = mystream
                        /\ streams' = streams
          /\ (micValue'[a].def /\ micValue'[a].blob # 0) =>
                 owners'[micValue'[a].blob] = a]_vars

\* a second question takes a step while the first one records
C17_Witness ==
    /\ micLast.kind \in {"start", "stop", "unmount"}
    /\ micLast.active
    /\ micLast.stream # 0
    /\ owners[micLast.stream] # micLast.q

\* C19: pressing start clears the value; the value stays absent while the
\* question's microphone request is pending and while its recording runs; the
\* value is set only by the completed encoding, to the encoded recording, and
\* then both session references are cleared and the tracks of the recorded stream
\* are stopped; a failed request shows a notice, clears both references and
\* leaves the value absent.
C19_PipelineInOrder ==
    [][\A q \in MicQuestions :
          /\ (micLast'.kind = "start" /\ micLast'.q = q) => micValue'[q] = NoAudio
          /\ (umPending'[q] > 0 \/ (SessionOf(q)' /\ recordRTC'.state = "recording"))
                 => micValue'[q] = NoAudio
          /\ (micValue'[q] # micValue[q] /\ micValue'[q].def) =>
                 /\ micLast'.kind = "encoded" /\ micLast'.q = q
                 /\ micValue'[q] = Audio(micLast'.stream)
                 /\ recordRTC' = NoRecorder
                 /\ mystream' = 0
                 /\ streams'[micLast'.stream] = "stopped"
          /\ (micLast'.kind = "denied" /\ micLast'.q = q) =>
                 /\ micAlerts' = micAlerts + 1
                 /\ recordRTC' = NoRecorder
                 /\ mystream' = 0
                 /\ micValue'[q] = NoAudio]_vars

\* an encoding completed, and a request failed
C19_Witness == micLast.kind = "encoded" /\ micAlerts > 0

\* C20: a question that is read-only at render has no start or stop handler: no
\* start or stop step is taken on it, it never has a microphone request or an
\* encoding of its own under way, and its value never changes.
C20_ReadOnlyIsInert ==
    [][\A q \in MicQuestions : micReadOnly[q] =>
          /\ ~(micLast'.q = q /\ micLast'.kind \in {"start", "stop"})
          /\ umPending'[q] = 0
          /\ procPending'[q] = 0
          /\ \A i \in 1..Len(readPending') : readPending'[i][1] # q
          /\ micValue'[q] = micValue[q]]_vars

\* a read-only question is rendered with its saved value while the other
\* question records
C20_Witness ==
    \E q \in MicQuestions :
        /\ micReadOnly[q]
        /\ micPhase[q] = "rendered"
        /\ micValue[q].def
        /\ audioSrc[q] = micValue[q]
        /\ recordRTC.def
====
